---- MODULE Spec2Model ----
(***************************************************************************)
(* A model of qq.py (edwardsp/qq): the command-line assistant that asks a  *)
(* chat-completion provider for one shell command, validates the           *)
(* structured response, prints it, copies it to the clipboard and appends  *)
(* it to a local history; or explains an earlier history record.           *)
(*                                                                         *)
(* Python strings that the program inspects are sequences of one-character *)
(* strings, so that `in` on a str is a real substring test.  Python values *)
(* are records [tag, chars, members] with tag the Python type name.        *)
(***************************************************************************)
EXTENDS Naturals, Integers, Sequences, FiniteSets, TLC

VARIABLES
    pc,            \* position of the running invocation of quickquestion()
    mode,          \* branch of quickquestion() l351-361: history / explain / question
    args,          \* argparse namespace: [history, explain, paste, question]
    api_type,      \* openai.api_type as set at l315
    q,             \* the question (l354 or l362-367)
    paste_buffer,  \* l354 or l370-372
    answer,        \* message returned by openai_chat_completion (l168)
    a,             \* the command (l373) or the recorded answer (l354)
    explanation,   \* what ask_chat_completion_explanation returned (l359)
    thrown,        \* exception raised inside the try block l167-168, "" if none
    requests,      \* completion requests issued to the provider in this invocation
    stdout,        \* what rprint / Console.print emitted, in order
    logged,        \* error kinds written by logger.error / logger.exception
    raised,        \* uncaught Python exception that ended the process, "" if none
    exit_code,     \* process exit status, -1 while running
    history,       \* rows of table history, in insertion order
    appends,       \* rows inserted by this invocation
    config,        \* inputs of one get_config_value call
    config_value   \* what that call produced

vars == <<pc, mode, args, api_type, q, paste_buffer, answer, a, explanation, thrown,
          requests, stdout, logged, raised, exit_code, history, appends,
          config, config_value>>

-----------------------------------------------------------------------------
(* Bounds of the model *)

MaxPayloadLen == 5      \* tokens in a function_call.arguments payload
MaxHistory == 2         \* rows after which no further question is asked

-----------------------------------------------------------------------------
(* Python values *)

S_command == <<"c", "o", "m", "m", "a", "n", "d">>
S_ls == <<"l", "s", " ", "-", "l", "a">>
S_explanation == <<"I", "t", " ", "l", "i", "s", "t", "s">>

PyStr(s) == [tag |-> "str", chars |-> s, members |-> <<>>]
PyInt(lexeme) == [tag |-> "int", chars |-> lexeme, members |-> <<>>]
PyNone == [tag |-> "NoneType", chars |-> <<>>, members |-> <<>>]
PyDict(m) == [tag |-> "dict", chars |-> <<>>, members |-> m]
PyUnset == [tag |-> "unset", chars |-> <<>>, members |-> <<>>]

\* needle in hay, for two str values: a substring test
IsSubstring(needle, hay) ==
    \E i \in 0..Len(hay) :
        /\ i + Len(needle) <= Len(hay)
        /\ \A k \in 1..Len(needle) : hay[i + k] = needle[k]

HasKey(m, key) == \E i \in 1..Len(m) : m[i].key = key

\* dict lookup; json.loads keeps the last of duplicate keys
DictGet(m, key) ==
    LET i == CHOOSE j \in 1..Len(m) :
                 /\ m[j].key = key
                 /\ \A k \in (j + 1)..Len(m) : m[k].key # key
    IN  m[i].value

-----------------------------------------------------------------------------
(* json.loads, over the tokens of the payload *)

StringTokens == {"\"command\"", "\"ls -la\""}
NumberTokens == {"5"}
Tokens == {"{", "}", ":", "null"} \cup StringTokens \cup NumberTokens

StrVal(t) == IF t = "\"command\"" THEN S_command ELSE S_ls

ParseFail == [ok |-> FALSE, value |-> PyNone, next |-> 0]
ParseOk(v, n) == [ok |-> TRUE, value |-> v, next |-> n]

RECURSIVE ParseValue(_, _)
RECURSIVE ParseMembers(_, _, _)

ParseValue(toks, i) ==
    IF i > Len(toks) THEN ParseFail
    ELSE IF toks[i] \in StringTokens THEN ParseOk(PyStr(StrVal(toks[i])), i + 1)
    ELSE IF toks[i] \in NumberTokens THEN ParseOk(PyInt(<<toks[i]>>), i + 1)
    ELSE IF toks[i] = "null" THEN ParseOk(PyNone, i + 1)
    ELSE IF toks[i] = "{" THEN
        IF i + 1 <= Len(toks) /\ toks[i + 1] = "}"
        THEN ParseOk(PyDict(<<>>), i + 2)
        ELSE ParseMembers(toks, i + 1, <<>>)
    ELSE ParseFail

ParseMembers(toks, i, acc) ==
    IF i + 1 > Len(toks) THEN ParseFail
    ELSE IF toks[i] \notin StringTokens \/ toks[i + 1] # ":" THEN ParseFail
    ELSE LET v == ParseValue(toks, i + 2)
             m == Append(acc, [key |-> StrVal(toks[i]), value |-> v.value])
         IN  IF ~v.ok \/ v.next > Len(toks) THEN ParseFail
             ELSE IF toks[v.next] = "}" THEN ParseOk(PyDict(m), v.next + 1)
             ELSE IF toks[v.next] = "," THEN ParseMembers(toks, v.next + 1, m)
             ELSE ParseFail

\* json.loads(s): the whole payload must be one value; anything else raises
json_loads(toks) ==
    LET r == ParseValue(toks, 1)
    IN  IF r.ok /\ r.next = Len(toks) + 1 THEN r ELSE ParseFail

-----------------------------------------------------------------------------
(* Outcomes of a call: a return value, a logged error with sys.exit(1), or *)
(* an exception nobody catches                                             *)

Return(v) == [kind |-> "return", value |-> v, error |-> "", exc |-> ""]
Raise(e) == [kind |-> "raise", value |-> PyUnset, error |-> "", exc |-> e]

\* logger.error(message); sys.exit(1)
error_and_exit(message) ==
    [kind |-> "exit", value |-> PyUnset, error |-> message, exc |-> ""]

-----------------------------------------------------------------------------
(* The provider's message *)

\* an attribute of the message is missing, None, or set
Message(fc, name, arguments, cs, content) ==
    [function_call |-> fc, name |-> name, arguments |-> arguments,
     content_state |-> cs, content |-> content]

hasattr_function_call(msg) == msg.function_call # "absent"
hasattr_content(msg) == msg.content_state # "absent"

\* 'command' not in args (l240): TypeError on a value that is no container
NotInRaises(v) == v.tag \in {"int", "NoneType"}
CommandNotIn(v) ==
    IF v.tag = "dict" THEN ~HasKey(v.members, S_command)
    ELSE ~IsSubstring(S_command, v.chars)

\* the validation of ask_chat_completion_question, after the call returned
ask_chat_completion_question(msg) ==
    IF ~hasattr_function_call(msg)
    THEN error_and_exit("UnrecognizedResponse")
    ELSE IF msg.function_call = "null"
    THEN Raise("AttributeError")     \* None.name, l232
    ELSE IF msg.name # "run_command"
    THEN error_and_exit("UnexpectedFunction")
    ELSE LET parsed == json_loads(msg.arguments)
         IN  IF ~parsed.ok
             THEN error_and_exit("MalformedArguments")  \* l236-238
             ELSE IF NotInRaises(parsed.value)
             THEN Raise("TypeError")                      \* l240
             ELSE IF CommandNotIn(parsed.value)
             THEN error_and_exit("MissingField")
             ELSE IF parsed.value.tag # "dict"
             THEN Raise("TypeError")                      \* str['command'], l242
             ELSE Return(DictGet(parsed.value.members, S_command))

\* the validation of ask_chat_completion_explanation, after the call returned
ask_chat_completion_explanation(msg) ==
    IF hasattr_content(msg)
    THEN Return(IF msg.content_state = "null" THEN PyNone ELSE PyStr(msg.content))
    ELSE error_and_exit("UnrecognizedResponse")

-----------------------------------------------------------------------------
(* Configuration: load_configfile and get_config_value *)

None == "<None>"
Truthy(v) == v \notin {None, ""}

ConfigKeys == {"OPENAI_API_TYPE", "OPENAI_API_KEY", "OPENAI_MODEL",
               "OPENAI_API_BASE", "OPENAI_API_VERSION", "OPENAI_ORGANIZATION"}

\* one lookup: the name, the default, os.getenv(name), the state of the
\* config file and its entry for the name (None when the key is missing)
ConfigInput(name, default, env, file, entry) ==
    [name |-> name, default |-> default, env |-> env, file |-> file, entry |-> entry]

CfgReturn(v) == [kind |-> "return", value |-> v, error |-> "", exc |-> ""]
CfgExit(e) == [kind |-> "exit", value |-> None, error |-> e, exc |-> ""]
CfgPending == [kind |-> "pending", value |-> None, error |-> "", exc |-> ""]

\* load_configfile: no file at either location, or a file json.load rejects
load_configfile(c) ==
    IF c.file = "absent" THEN CfgExit("NoConfigFile")
    ELSE IF c.file = "malformed" THEN CfgExit("ConfigFileLoadFailed")
    ELSE CfgReturn(c.entry)

\* get_config_value l302-309, once load_configfile has returned
lookup_config_value(c) ==
    IF Truthy(c.env) THEN CfgReturn(c.env)
    ELSE LET v == IF c.entry # None THEN c.entry ELSE c.default   \* dict.get
         IN  IF Truthy(v) THEN CfgReturn(v) ELSE CfgExit("ConfigValueNotFound")

get_config_value(c) ==
    IF load_configfile(c).kind = "exit" THEN load_configfile(c)
    ELSE lookup_config_value(c)

\* the values the model draws for os.getenv(name) and for a config-file entry
EnvValues == {None, "", "open_ai"}
EntryValues == {None, "", "Azure"}

\* a process environment and a config file, as quickquestion() finds them
Environment(environ, file, data) == [environ |-> environ, file |-> file, data |-> data]

NoEnviron == [k \in ConfigKeys |-> None]
NoData == [k \in ConfigKeys |-> None]

Environments ==
    { Environment(NoEnviron, "object",
          [NoData EXCEPT !["OPENAI_API_KEY"] = "k", !["OPENAI_MODEL"] = "gpt-4",
                         !["OPENAI_API_BASE"] = "b", !["OPENAI_API_VERSION"] = "v"]),
      Environment(NoEnviron, "object",
          [NoData EXCEPT !["OPENAI_API_TYPE"] = "open_ai", !["OPENAI_API_KEY"] = "k",
                         !["OPENAI_MODEL"] = "gpt-4", !["OPENAI_ORGANIZATION"] = "o"]),
      Environment([NoEnviron EXCEPT !["OPENAI_API_TYPE"] = "Azure",
                                    !["OPENAI_API_KEY"] = "k", !["OPENAI_MODEL"] = "gpt-4",
                                    !["OPENAI_API_BASE"] = "b", !["OPENAI_API_VERSION"] = "v"],
                  "object", NoData),
      Environment(NoEnviron, "object",
          [NoData EXCEPT !["OPENAI_API_TYPE"] = "bogus", !["OPENAI_API_KEY"] = "k",
                         !["OPENAI_MODEL"] = "gpt-4"]),
      Environment([NoEnviron EXCEPT !["OPENAI_API_KEY"] = "k", !["OPENAI_MODEL"] = "gpt-4",
                                    !["OPENAI_API_BASE"] = "b", !["OPENAI_API_VERSION"] = "v"],
                  "absent", NoData),
      Environment(NoEnviron, "object",
          [NoData EXCEPT !["OPENAI_MODEL"] = "gpt-4", !["OPENAI_API_BASE"] = "b",
                         !["OPENAI_API_VERSION"] = "v"]) }

Lookup(e, name, default) ==
    get_config_value(ConfigInput(name, default, e.environ[name], e.file, e.data[name]))

\* str.lower on the values of OPENAI_API_TYPE
Lower(s) == IF s = "Azure" THEN "azure" ELSE s

\* the first lookup of `names` that exits, or `ok`
RECURSIVE FirstExit(_, _, _)
FirstExit(e, names, ok) ==
    IF names = <<>> THEN ok
    ELSE IF Lookup(e, Head(names), None).kind = "exit" THEN Lookup(e, Head(names), None)
    ELSE FirstExit(e, Tail(names), ok)

\* quickquestion l315-326: returns openai.api_type, or exits on a missing value
startup_config(e) ==
    LET t == Lookup(e, "OPENAI_API_TYPE", "azure")
    IN  IF t.kind = "exit" THEN t
        ELSE LET ty == Lower(t.value)
                 more == IF ty = "azure" THEN <<"OPENAI_API_BASE", "OPENAI_API_VERSION">>
                         ELSE IF ty = "open_ai" THEN <<"OPENAI_ORGANIZATION">>
                         ELSE <<>>
             IN  FirstExit(e, <<"OPENAI_API_KEY", "OPENAI_MODEL">> \o more, CfgReturn(ty))

-----------------------------------------------------------------------------
(* Command line *)

\* args.explain: None for a bare -e, else the integer (default 0)
ExplainArg(none, n) == [none |-> none, n |-> n]

Args(h, e, p, words) == [history |-> h, explain |-> e, paste |-> p, question |-> words]

NoArgs == Args(FALSE, ExplainArg(FALSE, 0), FALSE, <<>>)

W_disk == <<"d", "i", "s", "k">>
W_use == <<"u", "s", "e">>
S_prompted == <<"p", "w", "d">>
S_clip == <<"x">>

QuestionArgs == {<<>>, <<W_disk, W_use>>}
PromptAnswers == {S_prompted}

\* the command lines the model runs; a question is asked while the history is short
CommandLines(h) ==
    {Args(TRUE, ExplainArg(FALSE, 0), FALSE, <<>>)}
    \cup {Args(FALSE, ExplainArg(TRUE, 0), FALSE, <<>>)}
    \cup {Args(FALSE, ExplainArg(FALSE, n), FALSE, <<>>) :
              n \in (0 - 1)..MaxHistory \ {0}}
    \cup (IF Len(h) < MaxHistory
          THEN {Args(FALSE, ExplainArg(FALSE, 0), p, w) :
                    p \in BOOLEAN, w \in QuestionArgs}
          ELSE {})

\* quickquestion l351-361
Dispatch(ar) ==
    IF ar.history THEN "history"
    ELSE IF ar.explain.none \/ ar.explain.n # 0 THEN "explain"
    ELSE "question"

\* ' '.join(words)
RECURSIVE Join(_)
Join(words) ==
    IF words = <<>> THEN <<>>
    ELSE IF Len(words) = 1 THEN words[1]
    ELSE words[1] \o <<" ">> \o Join(Tail(words))

-----------------------------------------------------------------------------
(* History store *)

Row(id, timestamp, question, response, pb) ==
    [id |-> id, timestamp |-> timestamp, question |-> question,
     response |-> response, paste_buffer |-> pb]

\* column affinity TEXT: an integer is stored as its text
TextAffinity(v) == IF v.tag = "int" THEN PyStr(v.chars) ELSE v

\* AUTOINCREMENT: one more than the largest id ever used (rows are never deleted)
NextId(h) == Len(h) + 1

LastTimestamp(h) == IF h = <<>> THEN 0 ELSE h[Len(h)].timestamp

\* datetime.now() to the second: not before the last row's, possibly equal to it
Now(h) == IF h = <<>> THEN {1} ELSE {LastTimestamp(h), LastTimestamp(h) + 1}

append_to_history_overwrite(h, question, response, pb, timestamp) ==
    IF h = <<>>
    THEN <<Row(1, timestamp, question, TextAffinity(response), pb)>>
    ELSE [h EXCEPT ![Len(h)] =
              Row(Len(h), timestamp, question, TextAffinity(response), pb)]

\* INSERT INTO history ...; commit
append_to_history(h, question, response, pb, timestamp) ==
    Append(h, Row(NextId(h), timestamp, question, TextAffinity(response), pb))

RowsOf(h) == {h[i] : i \in 1..Len(h)}

\* the rows get_history_item's query may return first
get_history_item(h, id) ==
    IF id.none \/ id.n <= 0
    THEN {r \in RowsOf(h) : \A s \in RowsOf(h) : s.timestamp <= r.timestamp}
    ELSE {r \in RowsOf(h) : r.id = id.n}

-----------------------------------------------------------------------------
(* The provider and the client library *)

\* the payloads of n tokens
Payloads(n) == [1..n -> Tokens]

P_command == <<"{", "\"command\"", ":", "\"ls -la\"", "}">>
P_int == <<"{", "\"command\"", ":", "5", "}">>
P_null == <<"{", "\"command\"", ":", "null", "}">>
P_empty == <<"{", "}">>
P_number == <<"5">>
P_open == <<"{">>

FunctionCall(name, arguments) == Message("set", name, arguments, "null", <<>>)
NoFunctionCall(fc, cs) ==
    Message(fc, "", <<>>, cs, IF cs = "set" THEN S_explanation ELSE <<>>)

\* every message over the payloads of n tokens, for the validators alone
Messages(n) ==
    {Message("set", name, p, cs, IF cs = "set" THEN S_explanation ELSE <<>>) :
         name \in {"run_command", "other_fn"}, p \in Payloads(n),
         cs \in {"absent", "null", "set"}}
    \cup {NoFunctionCall(fc, cs) :
              fc \in {"absent", "null"}, cs \in {"absent", "null", "set"}}

\* the messages the provider answers with in a whole invocation: a function
\* call only when the request offered functions (l162-164)
ProviderMessages(functions) ==
    {NoFunctionCall("null", "null"), NoFunctionCall("null", "set"),
     NoFunctionCall("absent", "absent")}
    \cup (IF functions
          THEN {FunctionCall("run_command", p) :
                    p \in {P_command, P_int, P_null, P_empty, P_number, P_open}}
               \cup {FunctionCall("other_fn", P_command)}
          ELSE {})

NoMessage == NoFunctionCall("absent", "absent")

\* the exceptions the handlers l170-190 name
ProviderExceptions ==
    {"APIError", "AuthenticationError", "APIConnectionError", "InvalidRequestError",
     "RateLimitError", "ServiceUnavailableError", "Timeout"}

\* the openai releases setup.py admits (openai>=0.28.0): 0.28 has openai.error
\* and no openai.chat, 1.x has openai.chat and no openai.error
Libraries == {"0.28", "1.x"}

\* the except clauses l170-193, entered with exception exc
except_clauses(lib, exc) ==
    IF lib = "1.x" THEN Raise("AttributeError")      \* openai.error, l170
    ELSE IF exc \in ProviderExceptions THEN error_and_exit(exc)
    ELSE Raise("UnboundLocalError")                  \* e in the bare except, l192

chat_completions_create_retried(n) == n + 2

\* one request goes to the provider, l167
chat_completions_create(n) == n + 1

-----------------------------------------------------------------------------
(* Steps of one invocation *)

Terminate(code, err, exc) ==
    /\ pc' = "exited"
    /\ exit_code' = code
    /\ logged' = IF err = "" THEN logged ELSE Append(logged, err)
    /\ raised' = exc

Fail(o) == Terminate(1, o.error, o.exc)

Goto(p) == pc' = p /\ UNCHANGED <<exit_code, logged, raised>>

Succeed == pc' = "done" /\ exit_code' = 0 /\ UNCHANGED <<logged, raised>>

\* quickquestion l312-349: the configuration, then the command line
Startup ==
    /\ pc = "start"
    /\ \E e \in Environments, ar \in CommandLines(history) :
           LET r == startup_config(e)
           IN  IF r.kind = "exit"
               THEN Fail(r) /\ UNCHANGED <<mode, args, api_type>>
               ELSE /\ Goto("main")
                    /\ args' = ar
                    /\ mode' = Dispatch(ar)
                    /\ api_type' = r.value
    /\ UNCHANGED <<q, paste_buffer, answer, a, explanation, thrown, requests, stdout,
                   history, appends, config, config_value>>

\* show_history, l352
ShowHistory ==
    /\ pc = "main" /\ mode = "history"
    /\ stdout' = Append(stdout, "History")
    /\ Succeed
    /\ UNCHANGED <<mode, args, api_type, q, paste_buffer, answer, a, explanation, thrown,
                   requests, history, appends, config, config_value>>

\* l354-356: get_history_item, then the Question and Answer panels
GetHistoryItem ==
    /\ pc = "main" /\ mode = "explain"
    /\ IF get_history_item(history, args.explain) = {}
       THEN /\ Fail(error_and_exit("NoHistoryItem"))
            /\ UNCHANGED <<q, a, paste_buffer, stdout>>
       ELSE \E r \in get_history_item(history, args.explain) :
                /\ q' = r.question
                /\ a' = r.response
                /\ paste_buffer' = r.paste_buffer
                /\ stdout' = stdout \o <<"Question", "Answer">>
                /\ Goto("call")
    /\ UNCHANGED <<mode, args, api_type, answer, explanation, thrown, requests,
                   history, appends, config, config_value>>

\* l362-372: the question, from the arguments or the prompt, and the paste buffer
ReadQuestion ==
    /\ pc = "main" /\ mode = "question"
    /\ \E asked \in PromptAnswers :
           q' = IF args.question # <<>> THEN Join(args.question) ELSE asked
    /\ IF args.paste
       THEN \/ paste_buffer' = S_clip /\ Goto("call")
            \/ Terminate(1, "", "PyperclipException") /\ UNCHANGED paste_buffer
       ELSE paste_buffer' = <<>> /\ Goto("call")
    /\ UNCHANGED <<mode, args, api_type, answer, a, explanation, thrown, requests, stdout,
                   history, appends, config, config_value>>

\* openai_chat_completion, l145-193
OpenaiChatCompletion ==
    /\ pc = "call"
    /\ IF api_type \notin {"azure", "open_ai"}
       THEN /\ Terminate(1, "", "NameError")          \* open_ai, l161
            /\ UNCHANGED <<answer, thrown, requests>>
       ELSE \E lib \in Libraries :
                IF lib = "0.28"
                THEN /\ thrown' = "AttributeError"    \* openai.chat, l167
                     /\ Fail(except_clauses(lib, "AttributeError"))
                     /\ UNCHANGED <<answer, requests>>
                ELSE /\ requests' = chat_completions_create(requests)
                     /\ \/ \E msg \in ProviderMessages(mode = "question") :
                               /\ answer' = msg
                               /\ Goto("answered")
                               /\ UNCHANGED thrown
                        \/ \E exc \in ProviderExceptions \cup {"KeyboardInterrupt"} :
                               /\ thrown' = exc
                               /\ Fail(except_clauses(lib, exc))
                               /\ UNCHANGED answer
    /\ UNCHANGED <<mode, args, api_type, q, paste_buffer, a, explanation, stdout,
                   history, appends, config, config_value>>

\* ask_chat_completion_question l228-242
ValidateQuestion ==
    /\ pc = "answered" /\ mode = "question"
    /\ LET o == ask_chat_completion_question(answer)
       IN  IF o.kind = "return"
           THEN a' = o.value /\ Goto("validated")
           ELSE Fail(o) /\ UNCHANGED a
    /\ UNCHANGED <<mode, args, api_type, q, paste_buffer, answer, explanation, thrown,
                   requests, stdout, history, appends, config, config_value>>

\* ask_chat_completion_explanation l265-270
ValidateExplanation ==
    /\ pc = "answered" /\ mode = "explain"
    /\ LET o == ask_chat_completion_explanation(answer)
       IN  IF o.kind = "return"
           THEN explanation' = o.value /\ Goto("validated")
           ELSE Fail(o) /\ UNCHANGED explanation
    /\ UNCHANGED <<mode, args, api_type, q, paste_buffer, answer, a, thrown,
                   requests, stdout, history, appends, config, config_value>>

\* rprint(Panel(explanation)), l359: a Panel renders str renderables only
RichPrintExplanation ==
    /\ pc = "validated" /\ mode = "explain"
    /\ IF explanation.tag = "str"
       THEN stdout' = Append(stdout, "Explanation") /\ Succeed
       ELSE Terminate(1, "", "NotRenderableError") /\ UNCHANGED stdout
    /\ UNCHANGED <<mode, args, api_type, q, paste_buffer, answer, a, explanation, thrown,
                   requests, history, appends, config, config_value>>

\* rprint(a), l374
RichPrintAnswer ==
    /\ pc = "validated" /\ mode = "question"
    /\ stdout' = Append(stdout, "Command")
    /\ Goto("printed")
    /\ UNCHANGED <<mode, args, api_type, q, paste_buffer, answer, a, explanation, thrown,
                   requests, history, appends, config, config_value>>

\* pyperclip.copy(a), l375: str, int, float and bool are copied, anything else
\* raises; so does a host without a clipboard mechanism, which a successful
\* pyperclip.paste() at l372 rules out
PyperclipCopy ==
    /\ pc = "printed"
    /\ IF a.tag \notin {"str", "int"}
       THEN Terminate(1, "", "PyperclipException")
       ELSE \/ Goto("copied")
            \/ ~args.paste /\ Terminate(1, "", "PyperclipException")
    /\ UNCHANGED <<mode, args, api_type, q, paste_buffer, answer, a, explanation, thrown,
                   requests, stdout, history, appends, config, config_value>>

\* append_to_history(q, a, paste_buffer), l376, and the normal end of the process
AppendToHistory ==
    /\ pc = "copied"
    /\ \E timestamp \in Now(history) :
           history' = append_to_history(history, q, a, paste_buffer, timestamp)
    /\ appends' = appends + 1
    /\ Succeed
    /\ UNCHANGED <<mode, args, api_type, q, paste_buffer, answer, a, explanation, thrown,
                   requests, stdout, config, config_value>>

\* SIGINT once the request has returned (inside the try block it is one of
\* the exceptions of OpenaiChatCompletion)
Interrupt ==
    /\ pc \in {"answered", "validated", "printed", "copied"}
    /\ Terminate(130, "", "KeyboardInterrupt")
    /\ UNCHANGED <<mode, args, api_type, q, paste_buffer, answer, a, explanation, thrown,
                   requests, stdout, history, appends, config, config_value>>

\* the next run of the program: only the history store survives
NextRun ==
    /\ pc \in {"done", "exited"}
    /\ pc' = "start"
    /\ mode' = ""
    /\ args' = NoArgs
    /\ api_type' = ""
    /\ q' = <<>>
    /\ paste_buffer' = <<>>
    /\ answer' = NoMessage
    /\ a' = PyUnset
    /\ explanation' = PyUnset
    /\ thrown' = ""
    /\ requests' = 0
    /\ stdout' = <<>>
    /\ logged' = <<>>
    /\ raised' = ""
    /\ exit_code' = 0 - 1
    /\ appends' = 0
    /\ UNCHANGED <<history, config, config_value>>

NoConfig == ConfigInput("", None, None, "absent", None)

Init ==
    /\ pc = "start"
    /\ mode = ""
    /\ args = NoArgs
    /\ api_type = ""
    /\ q = <<>>
    /\ paste_buffer = <<>>
    /\ answer = NoMessage
    /\ a = PyUnset
    /\ explanation = PyUnset
    /\ thrown = ""
    /\ requests = 0
    /\ stdout = <<>>
    /\ logged = <<>>
    /\ raised = ""
    /\ exit_code = 0 - 1
    /\ history = <<>>
    /\ appends = 0
    /\ config = NoConfig
    /\ config_value = CfgPending

Next ==
    \/ Startup
    \/ ShowHistory
    \/ GetHistoryItem
    \/ ReadQuestion
    \/ OpenaiChatCompletion
    \/ ValidateQuestion
    \/ ValidateExplanation
    \/ RichPrintExplanation
    \/ RichPrintAnswer
    \/ PyperclipCopy
    \/ AppendToHistory
    \/ Interrupt
    \/ NextRun

Spec == Init /\ [][Next]_vars

-----------------------------------------------------------------------------
(* The validators alone, over every message the payload bound admits *)

\* the call has returned: in a first run asking for a command, or in a run
\* explaining the one row an earlier run recorded
InitValidate ==
    /\ pc = "answered"
    /\ \E n \in 0..MaxPayloadLen : answer \in Messages(n)
    /\ requests = 1
    /\ api_type = "azure"
    /\ q = S_prompted
    /\ paste_buffer = <<>>
    /\ explanation = PyUnset
    /\ \/ /\ mode = "question"
          /\ args = NoArgs
          /\ a = PyUnset
          /\ stdout = <<>>
          /\ history = <<>>
       \/ /\ mode = "explain"
          /\ args = Args(FALSE, ExplainArg(TRUE, 0), FALSE, <<>>)
          /\ a = PyStr(S_ls)
          /\ stdout = <<"Question", "Answer">>
          /\ history = <<Row(1, 1, S_prompted, PyStr(S_ls), <<>>)>>
    /\ thrown = ""
    /\ logged = <<>>
    /\ raised = ""
    /\ exit_code = 0 - 1
    /\ appends = 0
    /\ config = NoConfig
    /\ config_value = CfgPending

NextValidate == ValidateQuestion \/ ValidateExplanation

SpecValidate == InitValidate /\ [][NextValidate]_vars

-----------------------------------------------------------------------------
(* One get_config_value call, over every input *)

ConfigInputs ==
    {ConfigInput(name, default, env, "object", entry) :
         name \in {"OPENAI_API_TYPE", "OPENAI_API_KEY"}, default \in {None, "azure"},
         env \in EnvValues, entry \in EntryValues}
    \cup {ConfigInput(name, default, env, file, None) :
              name \in {"OPENAI_API_TYPE", "OPENAI_API_KEY"}, default \in {None, "azure"},
              env \in EnvValues, file \in {"absent", "malformed"}}

\* get_config_value l299: load_configfile
LoadConfigfile ==
    /\ pc = "get_config_value"
    /\ IF load_configfile(config).kind = "exit"
       THEN Fail(load_configfile(config)) /\ config_value' = load_configfile(config)
       ELSE Goto("config_loaded") /\ UNCHANGED config_value
    /\ UNCHANGED <<mode, args, api_type, q, paste_buffer, answer, a, explanation, thrown,
                   requests, stdout, history, appends, config>>

\* get_config_value l302-309
LookupConfigValue ==
    /\ pc = "config_loaded"
    /\ config_value' = lookup_config_value(config)
    /\ IF lookup_config_value(config).kind = "exit"
       THEN Fail(lookup_config_value(config))
       ELSE Goto("config_done")
    /\ UNCHANGED <<mode, args, api_type, q, paste_buffer, answer, a, explanation, thrown,
                   requests, stdout, history, appends, config>>

InitConfig ==
    /\ pc = "get_config_value"
    /\ config \in ConfigInputs
    /\ config_value = CfgPending
    /\ mode = ""
    /\ args = NoArgs
    /\ api_type = ""
    /\ q = <<>>
    /\ paste_buffer = <<>>
    /\ answer = NoMessage
    /\ a = PyUnset
    /\ explanation = PyUnset
    /\ thrown = ""
    /\ requests = 0
    /\ stdout = <<>>
    /\ logged = <<>>
    /\ raised = ""
    /\ exit_code = 0 - 1
    /\ history = <<>>
    /\ appends = 0

NextConfig == LoadConfigfile \/ LookupConfigValue

SpecConfig == InitConfig /\ [][NextConfig]_vars

-----------------------------------------------------------------------------
(* Properties *)

Terminal == pc \in {"done", "exited"}

\* the invocation ended with exactly this logged error and nothing returned
FailedWith(kind) ==
    /\ pc = "exited"
    /\ exit_code = 1
    /\ logged = <<kind>>
    /\ raised = ""
    /\ mode = "question" => a = PyUnset
    /\ explanation = PyUnset

Neither(msg) ==
    /\ msg.function_call \in {"absent", "null"}
    /\ msg.content_state \in {"absent", "null"}

\* C1: a response with neither a function call nor content (absent or null)
\* ends validation, in command mode and in explanation mode, in the logged
\* error UnrecognizedResponse with exit code 1; nothing is returned for it.
C1_NeitherIsUnrecognizedResponse ==
    (pc # "answered" /\ Neither(answer)) => FailedWith("UnrecognizedResponse")

\* C2: for a response with a function call the command-mode checks run in
\* order and stop at the first failure: a name other than run_command is
\* UnexpectedFunction whatever the arguments; else arguments that are not JSON
\* are MalformedArguments; else a parsed value that is not an object with the
\* key command is MissingField; each with exit code 1 and no command.
C2_ChecksInOrder ==
    (pc # "answered" /\ mode = "question" /\ answer.function_call = "set") =>
        LET parsed == json_loads(answer.arguments)
        IN  IF answer.name # "run_command" THEN FailedWith("UnexpectedFunction")
            ELSE IF ~parsed.ok THEN FailedWith("MalformedArguments")
            ELSE IF ~(parsed.value.tag = "dict" /\ HasKey(parsed.value.members, S_command))
            THEN FailedWith("MissingField")
            ELSE TRUE

\* C3: when the function is run_command and the arguments parse as JSON with
\* the key command, the validator returns the value of command, and that
\* value is a string.
C3_ReturnsCommandString ==
    (/\ pc # "answered" /\ mode = "question"
     /\ answer.function_call = "set" /\ answer.name = "run_command"
     /\ json_loads(answer.arguments).ok
     /\ json_loads(answer.arguments).value.tag = "dict"
     /\ HasKey(json_loads(answer.arguments).value.members, S_command)) =>
        /\ pc = "validated"
        /\ a = DictGet(json_loads(answer.arguments).value.members, S_command)
        /\ a.tag = "str"

Count(out, kinds) == Cardinality({i \in 1..Len(out) : out[i] \in kinds})

\* C4: once validation has succeeded in command mode, the invocation (unless
\* interrupted from outside) ends with exactly one command printed and exactly
\* one new history row, holding the question and that command; printing and
\* the clipboard copy cannot end it without the row.
C4_ValidatedCommandIsRecorded ==
    (Terminal /\ mode = "question" /\ a # PyUnset /\ raised # "KeyboardInterrupt") =>
        /\ Count(stdout, {"Command"}) = 1
        /\ appends = 1
        /\ history # <<>>
        /\ history[Len(history)].question = q
        /\ history[Len(history)].response = a

\* C5: the history changes only by the append that ends a successful command
\* generation: the request was issued and answered, validation returned a
\* command, no error was logged or raised, and the step adds exactly one row
\* after the existing rows, which stay as they were.
C5_HistoryChangesOnlyOnSuccess ==
    [][history' # history =>
          /\ pc = "copied" /\ pc' = "done"
          /\ mode = "question"
          /\ requests = 1
          /\ a # PyUnset
          /\ thrown = "" /\ logged = <<>> /\ raised = ""
          /\ Len(history') = Len(history) + 1
          /\ SubSeq(history', 1, Len(history)) = history
          /\ history'[Len(history')].question = q]_vars

\* C5 witness: an invocation that failed after its request was issued, with
\* rows in the store and none written by it.
C5_Witness ==
    /\ pc = "exited" /\ exit_code = 1
    /\ requests = 1
    /\ history # <<>>
    /\ appends = 0

\* C6: an invocation that asks the provider ends (unless interrupted from
\* outside) either with exit code 0, one result printed and no error, or with
\* a non-zero exit code and no result printed.
C6_OneOutcome ==
    (Terminal /\ mode \in {"question", "explain"} /\ raised # "KeyboardInterrupt") =>
        \/ /\ exit_code = 0
           /\ Count(stdout, {"Command", "Explanation"}) = 1
           /\ logged = <<>> /\ raised = ""
        \/ /\ exit_code # 0
           /\ Count(stdout, {"Command", "Explanation"}) = 0

\* C7: an exception of the provider raised by the completion call is
\* classified once and logged, the process exits 1, and no other failure
\* raised inside the handler replaces it.
C7_ProviderExceptionIsClassified ==
    thrown \in ProviderExceptions =>
        /\ pc = "exited"
        /\ exit_code = 1
        /\ logged = <<thrown>>
        /\ raised = ""

\* C8: an invocation issues at most one completion request: none in a
\* history display, and any error (logged, raised, or thrown by the call) has
\* ended the invocation, so no request follows it.
C8_AtMostOneRequest ==
    /\ requests <= 1
    /\ mode = "history" => requests = 0
    /\ (logged # <<>> \/ raised # "" \/ thrown # "") => pc = "exited"
    /\ pc \in {"answered", "validated", "printed", "copied"} => requests = 1

\* C8 witness: the provider raised on the one request, and the invocation ended.
C8_Witness ==
    /\ pc = "exited"
    /\ requests = 1
    /\ thrown \in ProviderExceptions

\* the first defined of environment variable, config-file entry, default
Expected(c) ==
    IF Truthy(c.env) THEN c.env
    ELSE IF c.file = "object" /\ Truthy(c.entry) THEN c.entry
    ELSE c.default

\* C9: get_config_value returns the first defined of environment variable,
\* config-file entry and default, whether or not a config file exists, and
\* exits 1 only when none of the three is defined.
C9_Precedence ==
    (pc \in {"config_done", "exited"} /\ config.file # "malformed") =>
        IF Truthy(Expected(config))
        THEN config_value.kind = "return" /\ config_value.value = Expected(config)
        ELSE config_value.kind = "exit" /\ exit_code = 1

Uses(r) == q = r.question /\ a = r.response /\ paste_buffer = r.paste_buffer

\* C10: an explanation with an explicit id N >= 1 uses the row whose id is N
\* and exits 1 when there is none; with no id it uses the row appended last
\* (the highest id), also when rows share a timestamp.
C10_ExplainsTheRightRow ==
    /\ (pc = "call" /\ mode = "explain" /\ ~args.explain.none /\ args.explain.n >= 1) =>
           \E r \in RowsOf(history) : r.id = args.explain.n /\ Uses(r)
    /\ (pc = "call" /\ mode = "explain" /\ args.explain.none) =>
           Uses(history[Len(history)])
    /\ (pc = "exited" /\ mode = "explain" /\ logged = <<"NoHistoryItem">>) =>
           /\ exit_code = 1
           /\ \A r \in RowsOf(history) : r.id # args.explain.n

====
